---- MODULE Spec2Model ----
(***************************************************************************)
(* Model of main.py of asr_demo: a microphone capture session (sounddevice *)
(* callback -> queue.Queue -> soundfile writer loop, ended by Ctrl+C)      *)
(* followed by the evaluation of four speech-recognition backends with     *)
(* jiwer error metrics.                                                    *)
(*                                                                         *)
(* Strings are sequences of one-character strings.  Rational metric values *)
(* are pairs <<numerator, denominator>> compared by cross multiplication.  *)
(***************************************************************************)
EXTENDS Integers, Sequences, FiniteSets, TLC

VARIABLES
  filenameGiven,   \* args.filename was given on the command line
  samplerateGiven, \* args.samplerate was given on the command line
  fileExisted,     \* the output path existed when the program started
  pc,              \* position of the main thread
  exc,             \* the exception being propagated or that ended the run
  signalled,       \* Ctrl+C has been delivered (KeyboardInterrupt raised)
  disk,            \* the output path: "absent", "old" content, "new" file
  removed,         \* os.remove was called on the output path
  fileState,       \* the sf.SoundFile: "unopened", "open", "closed"
  streamState,     \* the sd.InputStream: "unopened", "active", "closed"
  deviceFailed,    \* where the input device failed: "no", "query", "stream"
  q,               \* the queue.Queue shared by callback and writer loop
  enqueued,        \* history: every frame the callback put, in order
  written,         \* the frames file.write appended, in order
  held,            \* the frame q.get() returned and file.write has not taken
  dropped,         \* the held frame discarded when the interrupt unwound
  enqAtCancel,     \* history: Len(enqueued) when KeyboardInterrupt was raised
  invoked,         \* the backends invoked so far, in order
  elapsed,         \* the duration of the latest recognition call
  results,         \* backend -> the error rates computed for it
  report,          \* model_data as printed
  mRef,            \* compute_error_rate on its own: reference argument
  mHyp,            \* hypothesis argument
  mOut,            \* returned value
  mpc              \* "call", "returned" or "raised"

sessionVars ==
  <<filenameGiven, samplerateGiven, fileExisted, pc, exc, signalled, disk, removed,
    fileState, streamState, deviceFailed, q, enqueued, written, held, dropped,
    enqAtCancel, invoked, elapsed, results, report>>

metricVars == <<mRef, mHyp, mOut, mpc>>

vars == <<sessionVars, metricVars>>

\* ------------------------------------------------------------------------
\* Bounds of the model
\* ------------------------------------------------------------------------

\* number of audio blocks the driver delivers in a modelled run
MaxFrames == 3

\* longest reference string drawn for compute_error_rate
MaxRefLen == 3

\* longest hypothesis string drawn for compute_error_rate
MaxHypLen == 3

\* ------------------------------------------------------------------------
\* Text normalisation (compute_error_rate, lines 37-43)
\* ------------------------------------------------------------------------

\* characters jiwer.RemovePunctuation deletes, restricted to the model alphabet
Punctuation == {".", ","}

\* the whitespace character of the model alphabet
Space == " "

\* str.lower on one character of the model alphabet
LowerChar(c) ==
  CASE c = "A" -> "a"
    [] c = "B" -> "b"
    [] c = "T" -> "t"
    [] OTHER -> c

RemovePunctuation(s) == SelectSeq(s, LAMBDA c : c \notin Punctuation)

ToLowerCase(s) == SubSeq([i \in 1..Len(s) |-> LowerChar(s[i])], 1, Len(s))

RECURSIVE StripLeft(_)
StripLeft(s) ==
  IF s # <<>> /\ Head(s) = Space THEN StripLeft(Tail(s)) ELSE s

RECURSIVE StripRight(_)
StripRight(s) ==
  IF s # <<>> /\ s[Len(s)] = Space THEN StripRight(SubSeq(s, 1, Len(s) - 1)) ELSE s

Strip(s) == StripRight(StripLeft(s))

\* the three preprocessing calls applied to reference and to hypothesis
Preprocess(s) == Strip(ToLowerCase(RemovePunctuation(s)))

\* ------------------------------------------------------------------------
\* jiwer.process_words / jiwer.cer (compute_error_rate, lines 46-51)
\* ------------------------------------------------------------------------

\* wer_default: RemoveMultipleSpaces, Strip, ReduceToListOfListOfWords:
\* the non-empty maximal runs of non-space characters, in order
RECURSIVE SplitWords(_, _, _)
SplitWords(s, cur, acc) ==
  IF s = <<>>
    THEN IF cur = <<>> THEN acc ELSE Append(acc, cur)
    ELSE IF Head(s) = Space
      THEN SplitWords(Tail(s), <<>>, IF cur = <<>> THEN acc ELSE Append(acc, cur))
      ELSE SplitWords(Tail(s), Append(cur, Head(s)), acc)

Words(s) == SplitWords(s, <<>>, <<>>)

\* cer_default: Strip, ReduceToListOfListOfChars
Chars(s) == Strip(s)

\* An alignment is summarised by its counts <<hits, substitutions,
\* deletions, insertions>>.
Cost(a) == a[2] + a[3] + a[4]

MinCost(S) == CHOOSE c \in {Cost(a) : a \in S} : \A a \in S : c <= Cost(a)

\* the alignments of least cost among the candidates
Cheapest(S) == {a \in S : Cost(a) = MinCost(S)}

AddHit(S) == {<<a[1] + 1, a[2], a[3], a[4]>> : a \in S}
AddSub(S) == {<<a[1], a[2] + 1, a[3], a[4]>> : a \in S}
AddDel(S) == {<<a[1], a[2], a[3] + 1, a[4]>> : a \in S}
AddIns(S) == {<<a[1], a[2], a[3], a[4] + 1>> : a \in S}

\* first row of the edit-distance table: j insertions
FirstRow(hyp) == SubSeq([j \in 1..(Len(hyp) + 1) |-> {<<0, 0, 0, j - 1>>}], 1, Len(hyp) + 1)

\* the cell of column j in the row of reference token r, from the previous
\* row and the cells of this row already filled (cell j+1 is column j)
Cell(prev, r, hyp, j, acc) ==
  Cheapest((IF r = hyp[j] THEN AddHit(prev[j]) ELSE AddSub(prev[j]))
           \cup AddDel(prev[j + 1]) \cup AddIns(acc[j]))

\* columns lo..hi of a row appended to acc, left to right; the range is
\* halved so that the nesting stays logarithmic, and the test on Len(left)
\* (never 0) has the left half computed before the right half starts
RECURSIVE FillCells(_, _, _, _, _, _)
FillCells(prev, r, hyp, lo, hi, acc) ==
  IF lo > hi THEN acc
  ELSE IF lo = hi THEN Append(acc, Cell(prev, r, hyp, lo, acc))
  ELSE LET mid == (lo + hi) \div 2
           left == FillCells(prev, r, hyp, lo, mid, acc)
       IN IF Len(left) = 0 THEN left ELSE FillCells(prev, r, hyp, mid + 1, hi, left)

\* one row of the table for reference token r, from the previous row
FillRow(prev, r, hyp) == FillCells(prev, r, hyp, 1, Len(hyp), <<AddDel(prev[1])>>)

\* the rows of reference tokens lo..hi applied to row, top to bottom,
\* halved in the same way
RECURSIVE FillTable(_, _, _, _, _)
FillTable(ref, hyp, lo, hi, row) ==
  IF lo > hi THEN row
  ELSE IF lo = hi THEN FillRow(row, ref[lo], hyp)
  ELSE LET mid == (lo + hi) \div 2
           upper == FillTable(ref, hyp, lo, mid, row)
       IN IF Len(upper) = 0 THEN upper ELSE FillTable(ref, hyp, mid + 1, hi, upper)

\* the counts of every minimum-edit-distance alignment of ref and hyp: the
\* edit operations the library returns are one of them
Alignments(ref, hyp) == FillTable(ref, hyp, 1, Len(ref), FirstRow(hyp))[Len(hyp) + 1]

\* a variant that divides by the hypothesis length
WerOfHypothesisLength(a) == <<a[2] + a[3] + a[4], a[1] + a[2] + a[4]>>

\* jiwer's rates from the counts of one alignment
WerOf(a) == <<a[2] + a[3] + a[4], a[1] + a[2] + a[3]>>
MerOf(a) == <<a[2] + a[3] + a[4], a[1] + a[2] + a[3] + a[4]>>
WipOf(a) ==
  IF a[1] + a[2] + a[4] >= 1
    THEN <<a[1] * a[1], (a[1] + a[2] + a[3]) * (a[1] + a[2] + a[4])>>
    ELSE <<0, 1>>
WilOf(a) == <<WipOf(a)[2] - WipOf(a)[1], WipOf(a)[2]>>

\* the value ASR.compute_error_rate returns, given the alignments the
\* library picked for the words (aw) and for the characters (ac)
ErrorRates(aw, ac) ==
  [wer |-> WerOf(aw), mer |-> MerOf(aw), wil |-> WilOf(aw), wip |-> WipOf(aw),
   cer |-> WerOf(ac)]

\* ASR.compute_error_rate: the possible return values; the empty set when
\* the preprocessed reference is empty (jiwer raises ValueError)
compute_error_rate(reference, hypothesis) ==
  LET ref == Preprocess(reference)
      hyp == Preprocess(hypothesis)
  IN IF Words(ref) = <<>> THEN {}
     ELSE {ErrorRates(aw, ac) : aw \in Alignments(Words(ref), Words(hyp)),
                                ac \in Alignments(Chars(ref), Chars(hyp))}

RatEq(x, y) == x[1] * y[2] = y[1] * x[2]

\* ------------------------------------------------------------------------
\* compute_error_rate as a function of its arguments
\* ------------------------------------------------------------------------

RECURSIVE StringsUpTo(_, _)
StringsUpTo(alphabet, n) ==
  IF n = 0 THEN {<<>>}
  ELSE StringsUpTo(alphabet, n - 1) \cup [1..n -> alphabet]

TheQuickBrownFox ==
  <<"t","h","e"," ","q","u","i","c","k"," ","b","r","o","w","n"," ","f","o","x">>

TheQuickFox == <<"t","h","e"," ","q","u","i","c","k"," ","f","o","x">>

References == StringsUpTo({"a", "b", " ", "."}, MaxRefLen) \cup {TheQuickBrownFox}

Hypotheses ==
  StringsUpTo({"a", "B", " ", ","}, MaxHypLen) \cup {TheQuickBrownFox, TheQuickFox}

NoRates == [wer |-> <<0, 0>>, mer |-> <<0, 0>>, wil |-> <<0, 0>>, wip |-> <<0, 0>>,
            cer |-> <<0, 0>>]

MetricIdle == mRef = <<>> /\ mHyp = <<>> /\ mOut = NoRates /\ mpc = "idle"

\* compute_error_rate returns
ComputeReturns ==
  /\ mpc = "call"
  /\ \E m \in compute_error_rate(mRef, mHyp) : mOut' = m
  /\ mpc' = "returned"
  /\ UNCHANGED <<mRef, mHyp, sessionVars>>

\* jiwer.process_words raises ValueError on an empty reference
ComputeRaises ==
  /\ mpc = "call"
  /\ compute_error_rate(mRef, mHyp) = {}
  /\ mpc' = "raised"
  /\ UNCHANGED <<mRef, mHyp, mOut, sessionVars>>

\* ------------------------------------------------------------------------
\* The session: module-level code of main.py, lines 182-280
\* ------------------------------------------------------------------------

\* queue.Queue(): maxsize 0, which means no limit
QueueMaxSize == 0

\* a variant with queue.Queue(maxsize=1)
PutBlocksWhenFull(queue) == Len(queue) >= 1

\* Queue.put(block=True) waits while the queue is full
PutBlocks(queue) == QueueMaxSize > 0 /\ Len(queue) >= QueueMaxSize

\* a variant that takes the newest item (queue.LifoQueue)
QueueGetNewest(queue) ==
  [item |-> queue[Len(queue)], rest |-> SubSeq(queue, 1, Len(queue) - 1)]

\* Queue.get takes the oldest item
QueueGet(queue) == [item |-> Head(queue), rest |-> Tail(queue)]

\* a variant with mode='w', which truncates an existing file
OpenFailsNever(d) == FALSE

\* sf.SoundFile(mode='x') refuses a path that exists
OpenFails(d) == d # "absent"

\* a variant with the with statements nested the other way round
NextToCloseFileFirst(fs, ss) ==
  IF fs = "open" THEN "file"
  ELSE IF ss = "active" THEN "stream"
  ELSE "none"

\* the context manager the nested with statements leave next:
\* sd.InputStream is the inner one, sf.SoundFile the outer one
NextToClose(fs, ss) ==
  IF ss = "active" THEN "stream"
  ELSE IF fs = "open" THEN "file"
  ELSE "none"

\* the positions of the main thread inside the try block
Setup == {"samplerate", "filename", "open_file", "open_stream"}
Loop == {"get", "write"}

\* a variant whose first clause is a bare except
HandlerCatchAll(e) == "eval"

\* the except clause that takes a pending exception
Handler(e) == IF e = "KeyboardInterrupt" THEN "eval" ELSE "exit_error"

\* the order of the recognition calls, lines 236-248
InvocationOrder == <<"whisper_small", "whisper_large", "vosk_small", "vosk_large">>

\* a variant that lists the rows as the calls are made
RowOrderAsInvoked == InvocationOrder

\* the order of the rows of model_data, lines 251-256
RowOrder == <<"vosk_small", "vosk_large", "whisper_small", "whisper_large">>

\* the reference sentence of every compute_error_rate call
Reference == <<"T", "e", "s", "t">>

\* sentences a backend may return
Sentences == {<<" ", "T", "e", "s", "t", ".">>, <<" ", "b", "e", "s", "t">>}

\* durations a backend may take
Latencies == {1, 2}

\* compute_error_rate("Test", sentence) for each sentence
Scores == [s \in Sentences |-> compute_error_rate(Reference, s)]

SessionInit ==
  /\ filenameGiven \in BOOLEAN
  /\ samplerateGiven \in BOOLEAN
  /\ fileExisted \in BOOLEAN
  /\ pc = "samplerate"
  /\ exc = "none"
  /\ signalled = FALSE
  /\ disk = IF fileExisted THEN "old" ELSE "absent"
  /\ removed = FALSE
  /\ fileState = "unopened"
  /\ streamState = "unopened"
  /\ deviceFailed = "no"
  /\ q = <<>>
  /\ enqueued = <<>>
  /\ written = <<>>
  /\ held = <<>>
  /\ dropped = <<>>
  /\ enqAtCancel = 0
  /\ invoked = <<>>
  /\ elapsed = 0
  /\ results = <<>>
  /\ report = <<>>

captureVars == <<q, enqueued, written, held, dropped, enqAtCancel>>
evalVars == <<invoked, elapsed, results, report>>
inputVars == <<filenameGiven, samplerateGiven, fileExisted>>

\* lines 200-203: the sample rate is given, or sd.query_devices returns it
QuerySamplerate ==
  /\ pc = "samplerate"
  /\ pc' = "filename"
  /\ UNCHANGED <<exc, signalled, disk, removed, fileState, streamState, deviceFailed,
                 captureVars, evalVars, inputVars, metricVars>>

\* line 201: sd.query_devices raises; no with statement is active yet
QueryFails ==
  /\ pc = "samplerate"
  /\ ~samplerateGiven
  /\ exc' = "DeviceError"
  /\ deviceFailed' = "query"
  /\ pc' = Handler("DeviceError")
  /\ UNCHANGED <<signalled, disk, removed, fileState, streamState,
                 captureVars, evalVars, inputVars, metricVars>>

\* lines 204-209: the default name, whose existing file is removed
DefaultFilename ==
  /\ pc = "filename"
  /\ IF ~filenameGiven /\ disk # "absent"
       THEN disk' = "absent" /\ removed' = TRUE
       ELSE UNCHANGED <<disk, removed>>
  /\ pc' = "open_file"
  /\ UNCHANGED <<exc, signalled, fileState, streamState, deviceFailed,
                 captureVars, evalVars, inputVars, metricVars>>

\* line 212: sf.SoundFile(mode='x') creates the file
OpenFile ==
  /\ pc = "open_file"
  /\ ~OpenFails(disk)
  /\ disk' = "new"
  /\ fileState' = "open"
  /\ pc' = "open_stream"
  /\ UNCHANGED <<exc, signalled, removed, streamState, deviceFailed,
                 captureVars, evalVars, inputVars, metricVars>>

\* line 212: the path exists; the error goes to except Exception
OpenFileExists ==
  /\ pc = "open_file"
  /\ OpenFails(disk)
  /\ exc' = "FileExists"
  /\ pc' = Handler("FileExists")
  /\ UNCHANGED <<signalled, disk, removed, fileState, streamState, deviceFailed,
                 captureVars, evalVars, inputVars, metricVars>>

\* line 214: sd.InputStream opens and starts the device
OpenStream ==
  /\ pc = "open_stream"
  /\ streamState' = "active"
  /\ pc' = "get"
  /\ UNCHANGED <<exc, signalled, disk, removed, fileState, deviceFailed,
                 captureVars, evalVars, inputVars, metricVars>>

\* line 214: sd.InputStream raises; the with statement of the file unwinds
OpenStreamFails ==
  /\ pc = "open_stream"
  /\ exc' = "DeviceError"
  /\ deviceFailed' = "stream"
  /\ pc' = "unwind"
  /\ UNCHANGED <<signalled, disk, removed, fileState, streamState,
                 captureVars, evalVars, inputVars, metricVars>>

\* lines 140-144, on the driver's thread: q.put(indata.copy()); a status
\* flag is only printed
Callback ==
  /\ streamState = "active"
  /\ Len(enqueued) < MaxFrames
  /\ ~PutBlocks(q)
  /\ q' = Append(q, Len(enqueued) + 1)
  /\ enqueued' = Append(enqueued, Len(enqueued) + 1)
  /\ UNCHANGED <<pc, exc, signalled, disk, removed, fileState, streamState,
                 deviceFailed, written, held, dropped, enqAtCancel,
                 evalVars, inputVars, metricVars>>

\* line 220: q.get() returns once the queue holds a frame
WriterGet ==
  /\ pc = "get"
  /\ q # <<>>
  /\ held' = <<QueueGet(q).item>>
  /\ q' = QueueGet(q).rest
  /\ pc' = "write"
  /\ UNCHANGED <<exc, signalled, disk, removed, fileState, streamState, deviceFailed,
                 enqueued, written, dropped, enqAtCancel,
                 evalVars, inputVars, metricVars>>

\* line 220: file.write appends the frame
WriterWrite ==
  /\ pc = "write"
  /\ written' = written \o held
  /\ held' = <<>>
  /\ pc' = "get"
  /\ UNCHANGED <<exc, signalled, disk, removed, fileState, streamState, deviceFailed,
                 q, enqueued, dropped, enqAtCancel,
                 evalVars, inputVars, metricVars>>

\* Ctrl+C: KeyboardInterrupt is raised in the main thread wherever it is
\* inside the try block; the frame in hand is discarded with the stack
Interrupt ==
  /\ ~signalled
  /\ pc \in Setup \cup Loop
  /\ signalled' = TRUE
  /\ exc' = "KeyboardInterrupt"
  /\ enqAtCancel' = Len(enqueued)
  /\ dropped' = held
  /\ held' = <<>>
  /\ pc' = "unwind"
  /\ UNCHANGED <<disk, removed, fileState, streamState, deviceFailed,
                 q, enqueued, written, evalVars, inputVars, metricVars>>

\* Ctrl+C while SoundFile.__exit__ runs for a device error: the
\* KeyboardInterrupt replaces the error, before or after close() took effect
InterruptUnwind ==
  /\ ~signalled
  /\ pc = "unwind"
  /\ NextToClose(fileState, streamState) = "file"
  /\ signalled' = TRUE
  /\ exc' = "KeyboardInterrupt"
  /\ enqAtCancel' = Len(enqueued)
  /\ fileState' \in {"open", "closed"}
  /\ pc' = Handler("KeyboardInterrupt")
  /\ UNCHANGED <<disk, removed, streamState, deviceFailed,
                 q, enqueued, written, held, dropped, evalVars, inputVars, metricVars>>

\* InputStream.__exit__: the stream is stopped and closed
ExitStream ==
  /\ pc = "unwind"
  /\ NextToClose(fileState, streamState) = "stream"
  /\ streamState' = "closed"
  /\ UNCHANGED <<pc, exc, signalled, disk, removed, fileState, deviceFailed,
                 captureVars, evalVars, inputVars, metricVars>>

\* SoundFile.__exit__: the file is closed
ExitFile ==
  /\ pc = "unwind"
  /\ NextToClose(fileState, streamState) = "file"
  /\ fileState' = "closed"
  /\ UNCHANGED <<pc, exc, signalled, disk, removed, streamState, deviceFailed,
                 captureVars, evalVars, inputVars, metricVars>>

\* the exception reaches the except clauses of line 221 and line 279
Handle ==
  /\ pc = "unwind"
  /\ NextToClose(fileState, streamState) = "none"
  /\ pc' = Handler(exc)
  /\ UNCHANGED <<exc, signalled, disk, removed, fileState, streamState, deviceFailed,
                 captureVars, evalVars, inputVars, metricVars>>

\* model_data, lines 251-256
model_data == [i \in 1..Len(RowOrder) |-> <<RowOrder[i], results[RowOrder[i]]>>]

\* lines 236-248: the next recognition call returns a sentence, which is
\* scored against the reference
Recognise ==
  /\ pc = "eval"
  /\ Len(invoked) < Len(InvocationOrder)
  /\ \E s \in Sentences, t \in Latencies :
       \E m \in Scores[s] :
         /\ results' = (InvocationOrder[Len(invoked) + 1] :> m) @@ results
         /\ elapsed' = t
  /\ invoked' = Append(invoked, InvocationOrder[Len(invoked) + 1])
  /\ UNCHANGED <<pc, exc, signalled, disk, removed, fileState, streamState,
                 deviceFailed, captureVars, report, inputVars, metricVars>>

\* lines 236-248: the recognition call raises inside the except clause of
\* line 221, where no handler encloses it
RecogniseFails ==
  /\ pc = "eval"
  /\ Len(invoked) < Len(InvocationOrder)
  /\ invoked' = Append(invoked, InvocationOrder[Len(invoked) + 1])
  /\ exc' = "BackendError"
  /\ pc' = "exit_uncaught"
  /\ UNCHANGED <<signalled, disk, removed, fileState, streamState, deviceFailed,
                 captureVars, elapsed, results, report, inputVars, metricVars>>

\* lines 251-278: the table is printed and the program exits with status 0
Report ==
  /\ pc = "eval"
  /\ Len(invoked) = Len(InvocationOrder)
  /\ report' = model_data
  /\ pc' = "exit_ok"
  /\ UNCHANGED <<exc, signalled, disk, removed, fileState, streamState, deviceFailed,
                 captureVars, invoked, elapsed, results, inputVars, metricVars>>

Init == SessionInit /\ MetricIdle

Next ==
  \/ QuerySamplerate
  \/ QueryFails
  \/ DefaultFilename
  \/ OpenFile
  \/ OpenFileExists
  \/ OpenStream
  \/ OpenStreamFails
  \/ Callback
  \/ WriterGet
  \/ WriterWrite
  \/ Interrupt
  \/ InterruptUnwind
  \/ ExitStream
  \/ ExitFile
  \/ Handle
  \/ Recognise
  \/ RecogniseFails
  \/ Report

Spec == Init /\ [][Next]_vars

\* compute_error_rate called on its own with arguments from bounded sets
MetricInit ==
  /\ SessionInit
  /\ filenameGiven /\ samplerateGiven /\ ~fileExisted
  /\ mRef \in References
  /\ mHyp \in Hypotheses
  /\ mOut = NoRates
  /\ mpc = "call"

MetricNext == ComputeReturns \/ ComputeRaises

SpecMetrics == MetricInit /\ [][MetricNext]_vars

\* ------------------------------------------------------------------------
\* Properties
\* ------------------------------------------------------------------------

\* the labels of the rows of the report, in order
RowLabels == [i \in 1..Len(report) |-> report[i][1]]

\* C1: once a cancelled session has closed the file, the file holds exactly
\* the frames the callback had enqueued when KeyboardInterrupt was raised
\* (drain guarantee).
C1_DrainGuarantee ==
  (exc = "KeyboardInterrupt" /\ streamState = "closed" /\ fileState = "closed")
    => written = SubSeq(enqueued, 1, enqAtCancel)

\* C2: the file is never closed while the input stream is still active, and
\* no step appends a frame to the file once it is closed.
C2_ShutdownOrder ==
  [][/\ fileState' = "closed" => streamState' # "active"
     /\ fileState = "closed" => written' = written]_vars

C2_Witness ==
  /\ exc = "KeyboardInterrupt"
  /\ streamState = "closed"
  /\ fileState = "closed"
  /\ written # <<>>
  /\ q # <<>>

\* C3: while the stream is active the callback's put is enabled whatever the
\* queue holds and wherever the main thread is (the model's frame budget
\* aside); the main thread waits only in q.get() on an empty queue.
C3_ProducerNeverBlocks ==
  /\ (streamState = "active" /\ Len(enqueued) < MaxFrames) => ENABLED Callback
  /\ pc = "write" => ENABLED WriterWrite
  /\ pc = "get" => (ENABLED WriterGet <=> q # <<>>)

C3_Witness ==
  /\ streamState = "active"
  /\ pc = "unwind"
  /\ Len(q) >= 2
  /\ Len(enqueued) < MaxFrames

\* C4: with a file name given and the path existing, the file is never
\* opened, the stream is never opened, the path keeps its old content and is
\* not removed; the FileExists error ends the run in except Exception with
\* no backend invoked and no report.  The path is removed only when no file
\* name was given.
C4_FileExists ==
  /\ (fileExisted /\ filenameGiven) =>
       /\ disk = "old"
       /\ ~removed
       /\ fileState = "unopened"
       /\ streamState = "unopened"
       /\ pc \notin Loop
       /\ enqueued = <<>>
  /\ exc = "FileExists" =>
       /\ fileExisted /\ filenameGiven
       /\ pc = "exit_error"
       /\ invoked = <<>>
       /\ report = <<>>
  /\ removed => (~filenameGiven /\ fileExisted)
  /\ (fileExisted /\ disk # "old") => removed

C4_Witness ==
  /\ exc = "FileExists"
  /\ pc = "exit_error"
  /\ fileExisted
  /\ filenameGiven

\* C5 as stated: after a device failure no output file created by the run
\* exists and no backend has been invoked.
C5_NoFileOnDeviceError ==
  deviceFailed # "no" => (disk # "new" /\ invoked = <<>>)

\* C5 as amended: a device failure ends the session before it records: the
\* stream never becomes active and no frame is enqueued or written.  A
\* failure of the device query precedes the creation of the file; a failure
\* to open the stream follows it, so the new, empty file stays on disk and
\* is closed by the time except Exception exits.  While the device error is
\* the pending exception no backend is invoked and no report is made.
C5_DeviceErrorAfterFile ==
  deviceFailed # "no" =>
    /\ streamState = "unopened"
    /\ enqueued = <<>>
    /\ written = <<>>
    /\ deviceFailed = "query" => (disk # "new" /\ fileState = "unopened")
    /\ deviceFailed = "stream" => (disk = "new" /\ fileState # "unopened")
    /\ exc = "DeviceError" => (invoked = <<>> /\ report = <<>> /\ pc # "eval")
    /\ pc = "exit_error" => fileState # "open"

C5_Witness ==
  /\ deviceFailed = "stream"
  /\ exc = "DeviceError"
  /\ pc = "exit_error"
  /\ disk = "new"
  /\ fileState = "closed"

\* C6: when a recognition call fails, the remaining backends are still
\* invoked and the report is still produced with a row for each.
C6_BackendIsolation ==
  pc \in {"exit_ok", "exit_uncaught"} =>
    (Len(invoked) = Len(InvocationOrder) /\ Len(report) = Len(InvocationOrder))

IsNormalized(s) == s # <<>> /\ Preprocess(s) = s

Min2(x, y) == IF x <= y THEN x ELSE y

\* the least number of substitutions, deletions and insertions that turn
\* sequence a into sequence b
RECURSIVE EditDistance(_, _)
EditDistance(a, b) ==
  IF a = <<>> THEN Len(b)
  ELSE IF b = <<>> THEN Len(a)
  ELSE Min2(EditDistance(Tail(a), Tail(b)) + (IF Head(a) = Head(b) THEN 0 ELSE 1),
            Min2(EditDistance(Tail(a), b) + 1, EditDistance(a, Tail(b)) + 1))

\* C8: for a non-empty normalized reference, wer is the edit distance
\* between the word sequences over the number of reference words; a
\* hypothesis equal to the reference gives wer = mer = wil = cer = 0 and
\* wip = 1; 'the quick brown fox' against 'the quick fox' gives 0.25; an
\* empty hypothesis gives 1.
C8_WordErrorRate ==
  (mpc = "returned" /\ IsNormalized(mRef)) =>
    LET refWords == Words(mRef)
        hypWords == Words(Preprocess(mHyp))
    IN /\ mOut.wer[2] = Len(refWords)
       /\ mOut.wer[2] > 0
       /\ mOut.wer[1] = EditDistance(refWords, hypWords)
       /\ Preprocess(mHyp) = mRef =>
            /\ mOut.wer[1] = 0
            /\ mOut.mer[1] = 0 /\ mOut.mer[2] > 0
            /\ mOut.wil[1] = 0 /\ mOut.wil[2] > 0
            /\ mOut.wip[1] = mOut.wip[2] /\ mOut.wip[2] > 0
            /\ mOut.cer[1] = 0 /\ mOut.cer[2] > 0
       /\ (mRef = TheQuickBrownFox /\ mHyp = TheQuickFox) => RatEq(mOut.wer, <<1, 4>>)
       /\ hypWords = <<>> => RatEq(mOut.wer, <<1, 1>>)

C8_Witness ==
  /\ mpc = "returned"
  /\ mRef = TheQuickBrownFox
  /\ mHyp = TheQuickFox
  /\ mOut.wer = <<1, 4>>

\* C9: a backend is invoked only after the session recorded and was
\* stopped with the stream and the file both closed.
C9_EvaluationAfterCapture ==
  invoked # <<>> => (streamState = "closed" /\ fileState = "closed")

\* C10: the frames written, then the frame taken from the queue and not
\* written (at most one), then the frames in the queue, are the frames
\* enqueued so far, in order.
C10_FifoPrefix ==
  /\ written \o held \o dropped \o q = enqueued
  /\ Len(held \o dropped) <= 1
  /\ \A i \in 1..Len(enqueued) : enqueued[i] = i

C10_Witness ==
  /\ Len(written) >= 1
  /\ held # <<>>
  /\ q # <<>>

====
